---- MODULE Spec2Model ----
(***************************************************************************)
(* django-linguist: the per-instance translation cache of ModelMixin and   *)
(* the bulk prefetch of ManagerMixin (src/linguist/mixins.py), modelled    *)
(* as a state machine over a translation store and a few model instances.  *)
(*                                                                         *)
(* mixins.py is modelled function by function, as each function would run  *)
(* once loaded.  Three things of the file as it stands shape the model:    *)
(*   - line 2 imports make_cache_key and CachedTranslation only, so the    *)
(*     names get_cache_key (line 178), attrs (lines 161, 191) and          *)
(*     Translations (line 127) resolve to nothing: a NameError;            *)
(*   - line 197 ends in "cached_translation =", which is no statement:     *)
(*     _get_translated_value does not compile (SyntaxError), and a read    *)
(*     ends in that error whatever the instance holds;                     *)
(*   - the tests pass the field names as field_names=..., with_translations*)
(*     names its parameter fields: such a call is a TypeError;             *)
(*   - _set_instance_cache (lines 33-40) tests membership in _linguist     *)
(*     itself and stores into _linguist.translation, not into the          *)
(*     _linguist.translations dictionary every other method uses.          *)
(* linguist/cache.py and linguist/models.py are not part of the sources:   *)
(* make_cache_key, CachedTranslation and the Translation manager are       *)
(* modelled from the data model of the specification.                      *)
(***************************************************************************)
EXTENDS Naturals, FiniteSets

VARIABLES pk, translations, linguist_language, linguist_default_language, rows, db, was_set, last

vars == <<pk, translations, linguist_language, linguist_default_language, rows, db, was_set, last>>

(***************************************************************************)
(* Bounds and input sets.                                                  *)
(***************************************************************************)
\* Rows of the host model the operations on one instance may create.
MaxRows == 1
\* Rows of the host model the operations on two instances may create.
MaxRowsTwo == 2
\* Rows of the host model in a store given to the prefetch.
MaxStoreRows == 2

Inst == {"i1", "i2"}
Field == {"title", "body"}
Lang == {"en", "fr"}
Value == {"a", "b"}

\* The language an instance starts in, as its current and its default one.
LANGUAGE_CODE == "en"

\* Python's None, as a field value or a returned value.
None == "None"
\* self.pk of an instance that was never saved.
NoPk == 0

(***************************************************************************)
(* Name resolution in the namespace of mixins.py.                          *)
(***************************************************************************)
get_cache_key_defined == FALSE
attrs_defined == FALSE
Translations_defined == FALSE

(***************************************************************************)
(* The cache and the store.                                                *)
(***************************************************************************)
\* The cache key of (instance, language, field_name): one per pair.
make_cache_key(language, field_name) == <<field_name, language>>

Key == { make_cache_key(l, f) : l \in Lang, f \in Field }

\* CachedTranslation(instance, translation) followed by field_value = value:
\* an entry not yet written to the store.
PendingEntry(value) == [field_value |-> value, saved |-> FALSE]
\* CachedTranslation(instance, translation=obj) for a record of the store.
LoadedEntry(obj) == [field_value |-> obj.field_value, saved |-> TRUE]

EmptyCache == [k \in {} |-> PendingEntry(None)]

\* History of an instance: no value set on it since it was made or last saved.
NothingSet == [k \in {} |-> None]

\* dict[key] = entry
Put(cache, key, entry) ==
    [k \in (DOMAIN cache) \cup {key} |-> IF k = key THEN entry ELSE cache[k]]

\* cached_translations_count
cached_translations_count(i) == Cardinality(DOMAIN translations[i])

\* A Translation record (the identifier column is the same for every row of
\* the one translated model, and is left out).
Record(object_id, key, value) ==
    [object_id |-> object_id, field_name |-> key[1], language |-> key[2],
     field_value |-> value]

RecordKey(r) == make_cache_key(r.language, r.field_name)

\* Translation.objects.filter(identifier=..., object_id=p)
ObjectRecords(store, p) == { r \in store : r.object_id = p }

\* Translation.objects.get(...) for one (object, field, language): the set of
\* matching records, empty when DoesNotExist is raised.
GetRecord(store, p, key) == { r \in ObjectRecords(store, p) : RecordKey(r) = key }

\* A Python argument that is either None or a collection of names.
NoneArg == [given |-> FALSE, names |-> {}]
ListArg(S) == [given |-> TRUE, names |-> S]

Idle ==
    [op |-> "init", inst |-> "none", field |-> None, lang |-> None,
     ret |-> None, err |-> "none", queries |-> 0, cached |-> FALSE,
     was_new |-> FALSE, n_before |-> 0, fields |-> NoneArg, languages |-> NoneArg,
     prefetched |-> EmptyCache, found |-> {}]

(***************************************************************************)
(* Construction.                                                           *)
(***************************************************************************)
Init ==
    /\ pk = [i \in Inst |-> NoPk]
    /\ linguist_language = [i \in Inst |-> LANGUAGE_CODE]
    /\ linguist_default_language = [i \in Inst |-> LANGUAGE_CODE]
    /\ translations = [i \in Inst |-> EmptyCache]
    /\ rows = {}
    /\ db = {}
    /\ was_set = [i \in Inst |-> NothingSet]
    /\ last = Idle

\* FooModel(): a new, unsaved instance with an empty cache.
NewInstance(i) ==
    /\ pk' = [pk EXCEPT ![i] = NoPk]
    /\ translations' = [translations EXCEPT ![i] = EmptyCache]
    /\ was_set' = [was_set EXCEPT ![i] = NothingSet]
    /\ linguist_language' = [linguist_language EXCEPT ![i] = LANGUAGE_CODE]
    /\ linguist_default_language' = [linguist_default_language EXCEPT ![i] = LANGUAGE_CODE]
    /\ last' = [Idle EXCEPT !.op = "new", !.inst = i]
    /\ UNCHANGED <<rows, db>>

\* FooModel.objects.get(pk=p): another instance of a saved object, its cache
\* empty.
Fetch(i, p) ==
    /\ p \in rows
    /\ pk' = [pk EXCEPT ![i] = p]
    /\ translations' = [translations EXCEPT ![i] = EmptyCache]
    /\ was_set' = [was_set EXCEPT ![i] = NothingSet]
    /\ linguist_language' = [linguist_language EXCEPT ![i] = LANGUAGE_CODE]
    /\ linguist_default_language' = [linguist_default_language EXCEPT ![i] = LANGUAGE_CODE]
    /\ last' = [Idle EXCEPT !.op = "fetch", !.inst = i]
    /\ UNCHANGED <<rows, db>>

(***************************************************************************)
(* ModelMixin.                                                             *)
(***************************************************************************)
\* language.setter: self._linguist.language = value
language_setter(i, value) ==
    /\ linguist_language' = [linguist_language EXCEPT ![i] = value]
    /\ last' = [Idle EXCEPT !.op = "set_language", !.inst = i, !.lang = value,
                            !.was_new = (pk[i] = NoPk),
                            !.n_before = cached_translations_count(i)]
    /\ UNCHANGED <<linguist_default_language, pk, translations, rows, db, was_set>>

\* A default_language setter that forgets to switch the current language.
default_language_only(i, value) ==
    /\ linguist_default_language' = [linguist_default_language EXCEPT ![i] = value]
    /\ last' = [Idle EXCEPT !.op = "set_default_language", !.inst = i,
                            !.lang = value,
                            !.was_new = (pk[i] = NoPk),
                            !.n_before = cached_translations_count(i)]
    /\ UNCHANGED <<linguist_language, pk, translations, rows, db, was_set>>

\* default_language.setter: self.language = value, then
\* self._linguist.default_language = value
default_language_setter(i, value) ==
    /\ linguist_language' = [linguist_language EXCEPT ![i] = value]
    /\ linguist_default_language' = [linguist_default_language EXCEPT ![i] = value]
    /\ last' = [Idle EXCEPT !.op = "set_default_language", !.inst = i,
                            !.lang = value,
                            !.was_new = (pk[i] = NoPk),
                            !.n_before = cached_translations_count(i)]
    /\ UNCHANGED <<pk, translations, rows, db, was_set>>

\* A clear that drops the entries already saved and keeps the pending edits.
clear_saved_entries_only(i) ==
    /\ translations' = [translations EXCEPT ![i] =
                           [k \in { c \in DOMAIN @ : @[c].saved } |-> @[k]]]
    /\ last' = [Idle EXCEPT !.op = "clear", !.inst = i,
                            !.n_before = cached_translations_count(i),
                            !.was_new = (pk[i] = NoPk)]
    /\ UNCHANGED <<linguist_language, linguist_default_language, pk, rows, db, was_set>>

\* clear_translations_cache: self._linguist.translations.clear()
clear_translations_cache(i) ==
    /\ translations' = [translations EXCEPT ![i] = EmptyCache]
    /\ last' = [Idle EXCEPT !.op = "clear", !.inst = i,
                            !.n_before = cached_translations_count(i),
                            !.was_new = (pk[i] = NoPk)]
    /\ UNCHANGED <<linguist_language, linguist_default_language, pk, rows, db, was_set>>

\* A _cache_translation that finds the key cached and leaves the old value.
CacheTranslationKeepsCached(i, language, field_name, value) ==
    LET is_new == (pk[i] = NoPk)
        cache_key == make_cache_key(language, field_name)
        cache == translations[i]
    IN  IF cache_key \in DOMAIN cache
        THEN [cache |-> cache, err |-> "none", queries |-> 0]
        ELSE IF ~is_new /\ ~attrs_defined
        THEN [cache |-> cache, err |-> "NameError", queries |-> 0]
        ELSE [cache |-> Put(cache, cache_key, PendingEntry(value)),
              err |-> "none", queries |-> IF is_new THEN 0 ELSE 1]

\* _cache_translation(self, language, field_name, value): what the call
\* leaves in the cache, the error it raises and the queries it issues.
CacheTranslationOutcome(i, language, field_name, value) ==
    LET is_new == (pk[i] = NoPk)
        cache_key == make_cache_key(language, field_name)
        cache == translations[i]
    IN  IF cache_key \in DOMAIN cache
        THEN \* Cache exists? Just update the value.
             [cache |-> Put(cache, cache_key, PendingEntry(value)),
              err |-> "none", queries |-> 0]
        ELSE IF ~is_new /\ ~attrs_defined
        THEN \* Translation.objects.get(**attrs): attrs is no name of the module.
             [cache |-> cache, err |-> "NameError", queries |-> 0]
        ELSE \* obj is the record or None; either way the value is cached.
             [cache |-> Put(cache, cache_key, PendingEntry(value)),
              err |-> "none", queries |-> IF is_new THEN 0 ELSE 1]

_cache_translation(i, language, field_name, value) ==
    LET out == CacheTranslationOutcome(i, language, field_name, value)
        cache_key == make_cache_key(language, field_name)
    IN  /\ translations' = [translations EXCEPT ![i] = out.cache]
        /\ was_set' = [was_set EXCEPT ![i] =
                          IF out.err = "none" THEN Put(@, cache_key, value) ELSE @]
        /\ last' = [Idle EXCEPT !.op = "set", !.inst = i, !.field = field_name,
                                !.lang = language, !.err = out.err,
                                !.queries = out.queries,
                                !.cached = (cache_key \in DOMAIN translations[i]),
                                !.was_new = (pk[i] = NoPk),
                                !.n_before = cached_translations_count(i)]
        /\ UNCHANGED <<linguist_language, linguist_default_language, pk, rows, db>>

\* Line 197, "cached_translation =", has no right-hand side: the text of
\* _get_translated_value is not a function Python accepts.
get_translated_value_compiles == FALSE

\* _get_translated_value(self, language, field_name): the cache after the
\* call, the value returned, the error raised and the queries issued.  The
\* branches below the first are lines 176-204 as they read, were line 197 a
\* statement.
GetTranslatedValueOutcome(i, language, field_name) ==
    LET is_new == (pk[i] = NoPk)
        cache_key == make_cache_key(language, field_name)
        cache == translations[i]
        found == GetRecord(db, pk[i], cache_key)
    IN  IF ~get_translated_value_compiles
        THEN \* SyntaxError at line 197: there is no function to call.
             [cache |-> cache, ret |-> None, err |-> "SyntaxError", queries |-> 0]
        ELSE IF ~get_cache_key_defined
        THEN \* get_cache_key(...): no such name in the module.
             [cache |-> cache, ret |-> None, err |-> "NameError", queries |-> 0]
        ELSE IF cache_key \in DOMAIN cache
        THEN [cache |-> cache, ret |-> cache[cache_key].field_value,
              err |-> "none", queries |-> 0]
        ELSE IF is_new
        THEN [cache |-> cache, ret |-> None, err |-> "none", queries |-> 0]
        ELSE IF ~attrs_defined
        THEN [cache |-> cache, ret |-> None, err |-> "NameError", queries |-> 0]
        ELSE IF found # {}
        THEN LET obj == CHOOSE r \in found : TRUE
             IN  [cache |-> Put(cache, cache_key, LoadedEntry(obj)),
                  ret |-> obj.field_value, err |-> "none", queries |-> 1]
        ELSE \* DoesNotExist is swallowed.
             [cache |-> cache, ret |-> None, err |-> "none", queries |-> 1]

_get_translated_value(i, language, field_name) ==
    LET out == GetTranslatedValueOutcome(i, language, field_name)
        cache_key == make_cache_key(language, field_name)
    IN  /\ translations' = [translations EXCEPT ![i] = out.cache]
        /\ last' = [Idle EXCEPT !.op = "read", !.inst = i, !.field = field_name,
                                !.lang = language, !.ret = out.ret,
                                !.err = out.err, !.queries = out.queries,
                                !.cached = (cache_key \in DOMAIN translations[i]),
                                !.was_new = (pk[i] = NoPk),
                                !.n_before = cached_translations_count(i)]
        /\ UNCHANGED <<linguist_language, linguist_default_language, pk, rows, db, was_set>>

\* Translation.objects.save_translation(instance): every cached translation
\* of the instance is written to the store under the instance's object id,
\* replacing the record of the same (field, language).
save_translation(store, object_id, cache) ==
    { r \in store : ~(r.object_id = object_id /\ RecordKey(r) \in DOMAIN cache) }
      \cup { Record(object_id, k, cache[k].field_value) : k \in DOMAIN cache }

\* The cache once its translations are written: no entry is pending.
Saved(cache) == [k \in DOMAIN cache |-> [cache[k] EXCEPT !.saved = TRUE]]

\* The primary key the host gives a row on its first save.
NewPk == Cardinality(rows) + 1

\* A save of instance i leaves the host model with at most R rows.
RoomFor(i, R) == pk[i] # NoPk \/ NewPk <= R

\* A save that saves the host row and forgets the translations.
save_without_translations(i) ==
    LET object_id == IF pk[i] = NoPk THEN NewPk ELSE pk[i]
    IN  /\ pk' = [pk EXCEPT ![i] = object_id]
        /\ rows' = rows \cup {object_id}
        /\ was_set' = [was_set EXCEPT ![i] = NothingSet]
        /\ last' = [Idle EXCEPT !.op = "save", !.inst = i,
                                !.was_new = (pk[i] = NoPk),
                                !.n_before = cached_translations_count(i)]
        /\ UNCHANGED <<linguist_language, linguist_default_language, db, translations>>

\* A save that empties the cache of the instance once its translations are
\* written.
save_and_clear(i) ==
    LET object_id == IF pk[i] = NoPk THEN NewPk ELSE pk[i]
    IN  /\ pk' = [pk EXCEPT ![i] = object_id]
        /\ rows' = rows \cup {object_id}
        /\ db' = save_translation(db, object_id, translations[i])
        /\ translations' = [translations EXCEPT ![i] = EmptyCache]
        /\ was_set' = [was_set EXCEPT ![i] = NothingSet]
        /\ last' = [Idle EXCEPT !.op = "save", !.inst = i,
                                !.was_new = (pk[i] = NoPk),
                                !.n_before = cached_translations_count(i)]
        /\ UNCHANGED <<linguist_language, linguist_default_language>>

\* A save that writes the translations before the host row is saved, under
\* the primary key the instance has by then.
save_translations_first(i) ==
    LET object_id == IF pk[i] = NoPk THEN NewPk ELSE pk[i]
    IN  /\ db' = save_translation(db, pk[i], translations[i])
        /\ pk' = [pk EXCEPT ![i] = object_id]
        /\ rows' = rows \cup {object_id}
        /\ translations' = [translations EXCEPT ![i] = Saved(@)]
        /\ was_set' = [was_set EXCEPT ![i] = NothingSet]
        /\ last' = [Idle EXCEPT !.op = "save", !.inst = i,
                                !.was_new = (pk[i] = NoPk),
                                !.n_before = cached_translations_count(i)]
        /\ UNCHANGED <<linguist_language, linguist_default_language>>

\* save(self): super().save() gives a new instance its primary key, then
\* Translation.objects.save_translation(self).
save(i) ==
    LET object_id == IF pk[i] = NoPk THEN NewPk ELSE pk[i]
    IN  /\ pk' = [pk EXCEPT ![i] = object_id]
        /\ rows' = rows \cup {object_id}
        /\ db' = save_translation(db, object_id, translations[i])
        /\ translations' = [translations EXCEPT ![i] = Saved(@)]
        /\ was_set' = [was_set EXCEPT ![i] = NothingSet]
        /\ last' = [Idle EXCEPT !.op = "save", !.inst = i,
                                !.was_new = (pk[i] = NoPk),
                                !.n_before = cached_translations_count(i)]
        /\ UNCHANGED <<linguist_language, linguist_default_language>>

\* Translation.objects.get_object_translations(obj, language): the records of
\* the object, of one language or (language None) of all.
get_object_translations(store, object_id, language) ==
    { r \in ObjectRecords(store, object_id) :
        language = None \/ r.language = language }

\* get_translations(self, language=None), and the evaluation of the queryset
\* it returns (one query).  An instance without a primary key is answered
\* with Translations.objects.none(); Translations is no name of the module.
get_translations(i, language) ==
    LET no_pk == (pk[i] = NoPk)
        raised == no_pk /\ ~Translations_defined
    IN  /\ last' = [Idle EXCEPT !.op = "get_translations", !.inst = i,
                                !.lang = language,
                                !.err = IF raised THEN "NameError" ELSE "none",
                                !.queries = IF no_pk THEN 0 ELSE 1,
                                !.found = IF no_pk THEN {}
                                          ELSE get_object_translations(db, pk[i], language),
                                !.was_new = no_pk,
                                !.n_before = cached_translations_count(i)]
        /\ UNCHANGED <<linguist_language, linguist_default_language, pk, translations, rows, db, was_set>>

\* Translation.objects.delete_object_translations(obj, language): the records
\* of the object, of one language or (language None) of all, leave the store.
delete_object_translations(store, object_id, language) ==
    { r \in store : ~(r.object_id = object_id
                      /\ (language = None \/ r.language = language)) }

\* delete_translations(self, language=None): the call to the manager and
\* nothing else; the cache of the instance is not touched.
delete_translations(i, language) ==
    /\ db' = delete_object_translations(db, pk[i], language)
    /\ last' = [Idle EXCEPT !.op = "delete", !.inst = i, !.lang = language,
                            !.was_new = (pk[i] = NoPk),
                            !.n_before = cached_translations_count(i)]
    /\ UNCHANGED <<linguist_language, linguist_default_language, pk, translations, rows, was_set>>

(***************************************************************************)
(* ManagerMixin.                                                           *)
(***************************************************************************)
\* _get_translation_lookups(instance, fields, languages), as the predicate
\* Translation.objects.filter(**lookups) applies to a record.
_get_translation_lookups(object_id, fields, languages, r) ==
    /\ r.object_id = object_id
    /\ (fields.given => r.field_name \in fields.names)
    /\ (languages.given => r.language \in languages.names)

\* Translation.objects.filter(**lookups)
Filter(store, object_id, fields, languages) ==
    { r \in store : _get_translation_lookups(object_id, fields, languages, r) }

\* A _set_instance_cache that caches every translation it is given, whether
\* or not its key is cached already.
SetInstanceCacheOverwrites(cache, found, raises) ==
    [cache |-> [k \in (DOMAIN cache) \cup { RecordKey(r) : r \in found } |->
                  IF \E r \in found : RecordKey(r) = k
                  THEN LoadedEntry(CHOOSE r \in found : RecordKey(r) = k)
                  ELSE cache[k]],
     err |-> "none"]

\* _set_instance_cache(instance, translations) on the cache of the instance.
\* Each translation iterated runs lines 34-40: the membership test is made on
\* instance._linguist and the entry is stored in instance._linguist.translation,
\* so instance._linguist.translations is left as it was.  Whether those lines
\* raise depends on the _linguist object (raises).
_set_instance_cache(cache, found, raises) ==
    [cache |-> cache,
     err |-> IF raises /\ found # {} THEN "Error" ELSE "none"]

\* The instances get_queryset() yields before the loop of with_translations
\* ends: all of them, or those up to the first whose _set_instance_cache raises.
Visited(fields, languages, raises) ==
    { p \in rows :
        \A q \in rows :
            q < p => _set_instance_cache(EmptyCache,
                        Filter(db, q, fields, languages), raises).err = "none" }

\* The keywords a caller passes the field names under: fields, the parameter
\* of line 43, and field_names, the one the tests use.
FieldKeywords == {"fields", "field_names"}

\* with_translations(self, fields=None, languages=None), called with the
\* field names under keyword: one query for the instances, then for each
\* instance one query for its translations.  There is no return statement.
\* A keyword other than fields is no parameter of the method: the call raises
\* TypeError before get_queryset() is evaluated.
with_translations(keyword, fields, languages) ==
    IF fields.given /\ keyword # "fields"
    THEN /\ last' = [Idle EXCEPT !.op = "with_translations",
                                 !.ret = None, !.err = "TypeError",
                                 !.queries = 0,
                                 !.fields = fields, !.languages = languages]
         /\ UNCHANGED <<linguist_language, linguist_default_language, pk, translations, rows, db, was_set>>
    ELSE \E raises \in BOOLEAN :
        LET visited == Visited(fields, languages, raises)
            out(p) == _set_instance_cache(EmptyCache,
                          Filter(db, p, fields, languages), raises)
            failed == { p \in visited : out(p).err # "none" }
        IN  /\ last' = [Idle EXCEPT !.op = "with_translations",
                                    !.ret = None,
                                    !.err = IF failed = {} THEN "none" ELSE "Error",
                                    !.queries = 1 + Cardinality(visited),
                                    !.fields = fields, !.languages = languages,
                                    !.prefetched = [p \in visited |-> out(p).cache]]
            /\ UNCHANGED <<linguist_language, linguist_default_language, pk, translations, rows, db, was_set>>

\* The body of the loop of with_translations for an instance the caller
\* holds: _set_instance_cache(instance, Translation.objects.filter(**lookups)).
prefetch_instance(i) ==
    \E raises \in BOOLEAN :
        LET found == Filter(db, pk[i], NoneArg, NoneArg)
            out == _set_instance_cache(translations[i], found, raises)
        IN  /\ translations' = [translations EXCEPT ![i] = out.cache]
            /\ last' = [Idle EXCEPT !.op = "set_instance_cache", !.inst = i,
                                    !.err = out.err, !.queries = 1,
                                    !.was_new = (pk[i] = NoPk),
                                    !.n_before = cached_translations_count(i)]
            /\ UNCHANGED <<linguist_language, linguist_default_language, pk, rows, db, was_set>>

(***************************************************************************)
(* The operations, over instances I, fields F, languages L and values V.   *)
(***************************************************************************)
\* The values of the parameters fields and languages: None, or names.
FieldArgs(F) == {NoneArg} \cup { ListArg({f}) : f \in F }
LangArgs(L) == {NoneArg} \cup { ListArg({l}) : l \in L }

\* R bounds the rows the saves may create; save itself has no limit.
NextOver(I, F, L, V, R) ==
    \/ \E i \in I : NewInstance(i)
    \/ \E i \in I, p \in rows : Fetch(i, p)
    \/ \E i \in I : clear_translations_cache(i)
    \/ \E i \in I, l \in L, f \in F, v \in V : _cache_translation(i, l, f, v)
    \/ \E i \in I, l \in L, f \in F : _get_translated_value(i, l, f)
    \/ \E i \in I : RoomFor(i, R) /\ save(i)
    \/ \E i \in I, l \in L \cup {None} : delete_translations(i, l)
    \/ \E i \in I, l \in L \cup {None} : get_translations(i, l)
    \/ \E fields \in FieldArgs(F), languages \in LangArgs(L) :
          with_translations("fields", fields, languages)

\* One instance handle, made, fetched, edited, saved and read over and over,
\* its translatable field "title" in every language.
Next == NextOver({"i1"}, {"title"}, Lang, Value, MaxRows)

Spec == Init /\ [][Next]_vars

\* An unsaved instance, its values set and cleared and its languages switched.
NextLanguage ==
    \/ NewInstance("i1")
    \/ clear_translations_cache("i1")
    \/ \E l \in Lang, v \in Value : _cache_translation("i1", l, "title", v)
    \/ \E v \in Lang : language_setter("i1", v)
    \/ \E v \in Lang : default_language_setter("i1", v)

SpecLanguage == Init /\ [][NextLanguage]_vars

\* Two instance handles side by side, one language.
NextTwo == NextOver({"i1", "i2"}, {"title"}, {"en"}, Value, MaxRowsTwo)

SpecTwo == Init /\ [][NextTwo]_vars

\* The same, with _set_instance_cache also applied to the instance held.
NextSetCache == Next \/ prefetch_instance("i1")

SpecSetCache == Init /\ [][NextSetCache]_vars

(***************************************************************************)
(* The prefetch over the stores the operations above can build: up to      *)
(* MaxStoreRows saved objects, each with any of its (field, language)      *)
(* translations persisted.                                                 *)
(***************************************************************************)
StoreRecords(n) == { Record(p, k, "a") : p \in 1 .. n, k \in Key }

InitStore ==
    /\ pk = [i \in Inst |-> NoPk]
    /\ linguist_language = [i \in Inst |-> LANGUAGE_CODE]
    /\ linguist_default_language = [i \in Inst |-> LANGUAGE_CODE]
    /\ translations = [i \in Inst |-> EmptyCache]
    /\ was_set = [i \in Inst |-> NothingSet]
    /\ last = Idle
    /\ \E n \in 0 .. MaxStoreRows :
          /\ rows = 1 .. n
          /\ db \in SUBSET StoreRecords(n)

NextPrefetch ==
    \E keyword \in FieldKeywords,
       fields \in FieldArgs(Field), languages \in LangArgs(Lang) :
        /\ (fields.given \/ keyword = "fields")
        /\ with_translations(keyword, fields, languages)

SpecPrefetch == InitStore /\ [][NextPrefetch]_vars

(***************************************************************************)
(* Properties.                                                             *)
(***************************************************************************)
HasRecord(p, key) == GetRecord(db, p, key) # {}
StoredValue(p, key) == (CHOOSE r \in GetRecord(db, p, key) : TRUE).field_value
LastKey == make_cache_key(last.lang, last.field)

\* C1: in every reachable state each entry of an instance's cache is either a
\* translation currently persisted for the object of the instance or an
\* unsaved pending edit.
C1_CacheIsPersistedOrPending ==
    \A i \in Inst : \A k \in DOMAIN translations[i] :
        \/ ~translations[i][k].saved
        \/ (pk[i] # NoPk /\ HasRecord(pk[i], k))

\* C2: a read on a persisted instance of a (field, language) that has a record:
\* when the key was not cached, the read returns the persisted value with
\* exactly one query and caches it; when it was cached, the read issues no
\* query and returns the cached value.
C2_LazyLoad ==
    (last.op = "read" /\ pk[last.inst] # NoPk /\ HasRecord(pk[last.inst], LastKey))
    => /\ last.err = "none"
       /\ LastKey \in DOMAIN translations[last.inst]
       /\ last.ret = translations[last.inst][LastKey].field_value
       /\ IF last.cached
          THEN last.queries = 0
          ELSE last.queries = 1 /\ last.ret = StoredValue(pk[last.inst], LastKey)

\* C3: after with_translations() with no arguments every instance of the
\* queryset holds a cache entry for every translation persisted for its object.
C3_PrefetchCachesEveryRecord ==
    (last.op = "with_translations" /\ ~last.fields.given /\ ~last.languages.given)
    => \A p \in rows :
          /\ p \in DOMAIN last.prefetched
          /\ \A r \in ObjectRecords(db, p) : RecordKey(r) \in DOMAIN last.prefetched[p]

\* C4: with_translations returns the collection of the instances it populated
\* (something that can be indexed and iterated), not None.
C4_ReturnsTheInstances ==
    last.op = "with_translations" => last.ret # None

\* C5 as stated: after save() every (field, language) value set on the
\* instance before the save is persisted with that value, and a new instance
\* on which k keys were set has exactly k records.
C5_EverySetValueIsPersisted ==
    [][\A i \in Inst :
         save(i) =>
           /\ \A k \in DOMAIN was_set[i] :
                \E r \in GetRecord(db', pk'[i], k) : r.field_value = was_set[i][k]
           /\ pk[i] = NoPk =>
                Cardinality(ObjectRecords(db', pk'[i])) = Cardinality(DOMAIN was_set[i])
      ]_vars

\* C5, amended: after save() every (field, language) value held in the cache
\* of the instance when save() is called is persisted with that value, and a
\* new instance whose cache holds k keys has exactly k records.
C5_SavePersistsCachedValues ==
    [][\A i \in Inst :
         save(i) =>
           /\ \A k \in DOMAIN translations[i] :
                \E r \in GetRecord(db', pk'[i], k) :
                    r.field_value = translations[i][k].field_value
           /\ pk[i] = NoPk =>
                Cardinality(ObjectRecords(db', pk'[i]))
                    = Cardinality(DOMAIN translations[i])
      ]_vars

\* A new instance with two pending edits has just been saved.
C5_Witness ==
    /\ last.op = "save" /\ last.was_new /\ last.n_before = 2
    /\ Cardinality(ObjectRecords(db, pk[last.inst])) = 2

\* C6: immediately after clear_translations_cache() the count of cached
\* translations of the instance is 0.
C6_ClearEmptiesCache ==
    last.op = "clear" => cached_translations_count(last.inst) = 0

\* A cache that held two entries has just been cleared.
C6_Witness ==
    last.op = "clear" /\ last.n_before = 2 /\ cached_translations_count(last.inst) = 0

\* C7: a read on a persisted instance of an uncached (field, language) that has
\* no record raises nothing, returns None and adds no cache entry.
C7_MissingRecordReadsNone ==
    (last.op = "read" /\ pk[last.inst] # NoPk /\ ~last.cached
        /\ ~HasRecord(pk[last.inst], LastKey))
    => /\ last.err = "none"
       /\ last.ret = None
       /\ LastKey \notin DOMAIN translations[last.inst]

\* C8: with_translations(fields, languages), called with the keywords the
\* method has, caches for each instance exactly the persisted translations
\* the two arguments let through.
C8_PrefetchCachesExactlyTheFiltered ==
    (last.op = "with_translations" /\ last.err # "TypeError")
    => \A p \in rows :
          /\ p \in DOMAIN last.prefetched
          /\ DOMAIN last.prefetched[p]
               = { RecordKey(r) : r \in Filter(db, p, last.fields, last.languages) }

\* C9: with_translations, called with the keywords the method has, over a
\* queryset that is not empty issues exactly two queries, one for the
\* instances and one for their translations, whatever the number of instances.
C9_PrefetchIssuesTwoQueries ==
    (last.op = "with_translations" /\ last.err # "TypeError" /\ rows # {})
    => last.queries = 2

\* C10: save() leaves the keys and the values of the instance cache as they
\* were, and a read of a cached key issues no query.
C10_SaveKeepsCache ==
    /\ [][\A i \in Inst :
            save(i) =>
              /\ DOMAIN translations'[i] = DOMAIN translations[i]
              /\ \A k \in DOMAIN translations[i] :
                   translations'[i][k].field_value = translations[i][k].field_value
         ]_vars
    /\ []((last.op = "read" /\ last.cached) => last.queries = 0)

\* An instance holding two cached values has just been saved and holds them.
C10_Witness ==
    /\ last.op = "save" /\ last.n_before = 2
    /\ cached_translations_count(last.inst) = 2

\* C11: an instance's cache holds at most one entry per (field name,
\* language), and a set of a key that is already cached replaces the value of
\* that entry in place: the cached keys and their count stay as they were.
C11_CacheKeyUniqueness ==
    /\ [](\A i \in Inst :
            /\ DOMAIN translations[i] \subseteq Key
            /\ cached_translations_count(i) <= Cardinality(Key))
    /\ [][\A i \in Inst, l \in Lang, f \in Field, v \in Value :
            (_cache_translation(i, l, f, v)
                /\ make_cache_key(l, f) \in DOMAIN translations[i])
            => /\ DOMAIN translations'[i] = DOMAIN translations[i]
               /\ Cardinality(DOMAIN translations'[i]) = cached_translations_count(i)
               /\ translations'[i][make_cache_key(l, f)].field_value = v
               /\ \A k \in DOMAIN translations[i] \ {make_cache_key(l, f)} :
                    translations'[i][k] = translations[i][k]
         ]_vars

\* A cached key has just been set to another value than the other cached key
\* holds, and the count is what it was.
C11_Witness ==
    /\ last.op = "set" /\ last.cached /\ last.err = "none"
    /\ last.n_before = 2 /\ cached_translations_count(last.inst) = 2
    /\ \E k \in DOMAIN translations[last.inst] :
          translations[last.inst][k].field_value
             # translations[last.inst][LastKey].field_value

\* C12: once an object was saved with a value per language, the instance of it
\* that with_translations() hands back holds, for each language, the value
\* saved for that language.
C12_SaveReloadRoundTrip ==
    (/\ last.op = "with_translations"
     /\ ~last.fields.given /\ ~last.languages.given
     /\ \E r1, r2 \in db :
           /\ r1.object_id = r2.object_id /\ r1.field_name = r2.field_name
           /\ r1.language # r2.language /\ r1.field_value # r2.field_value)
    => /\ last.ret # None
       /\ \A r \in db :
             /\ r.object_id \in DOMAIN last.prefetched
             /\ RecordKey(r) \in DOMAIN last.prefetched[r.object_id]
             /\ last.prefetched[r.object_id][RecordKey(r)].field_value = r.field_value

\* C13: the host row is saved before the translations are written, so every
\* translation record carries the primary key of a saved row, never the
\* missing key of an unsaved instance.
C13_NoRecordWithoutObjectId ==
    \A r \in db : r.object_id # NoPk /\ r.object_id \in rows

\* A new instance with pending edits has just had its first save, and its
\* records carry its new primary key.
C13_Witness ==
    /\ last.op = "save" /\ last.was_new /\ last.n_before >= 1
    /\ pk[last.inst] # NoPk
    /\ ObjectRecords(db, pk[last.inst]) # {}

\* C14: a set or a read of (field, language) issues one query when the key is
\* not cached and the instance is persisted, and none otherwise; a read of an
\* uncached key on an unsaved instance returns None.
C14_QueriesOnlyOnPersistedMiss ==
    last.op \in {"set", "read"}
    => /\ last.queries = (IF ~last.cached /\ ~last.was_new THEN 1 ELSE 0)
       /\ (last.op = "read" /\ ~last.cached /\ last.was_new)
             => (last.err = "none" /\ last.ret = None)

\* C15: a set of an uncached (field, language) that has no record, on a
\* persisted instance, raises nothing and adds one pending entry holding the
\* value.
C15_SetOnPersistedMissAddsPendingEntry ==
    (/\ last.op = "set" /\ ~last.was_new /\ ~last.cached
     /\ ~HasRecord(pk[last.inst], LastKey))
    => /\ last.err = "none"
       /\ LastKey \in DOMAIN translations[last.inst]
       /\ ~translations[last.inst][LastKey].saved
       /\ cached_translations_count(last.inst) = last.n_before + 1

\* C16: _set_instance_cache never overwrites an entry that is already cached:
\* every key cached before it is cached after it with the same entry, even
\* when the persisted record of that key holds another value.
C16_PrefetchKeepsCachedEntries ==
    [][\A i \in Inst :
         prefetch_instance(i)
         => \A k \in DOMAIN translations[i] :
               /\ k \in DOMAIN translations'[i]
               /\ translations'[i][k] = translations[i][k]
      ]_vars

\* _set_instance_cache has just run on an instance holding a pending edit of a
\* key whose persisted record holds another value.
C16_Witness ==
    /\ last.op = "set_instance_cache"
    /\ \E k \in DOMAIN translations[last.inst] :
          /\ ~translations[last.inst][k].saved
          /\ HasRecord(pk[last.inst], k)
          /\ StoredValue(pk[last.inst], k) # translations[last.inst][k].field_value

\* C17: get_translations() raises nothing; on an unsaved instance it returns
\* an empty result without a query, on a persisted one the saved translations
\* of the instance, of the given language when one is given.
C17_GetTranslations ==
    last.op = "get_translations"
    => /\ last.err = "none"
       /\ IF last.was_new
          THEN last.found = {} /\ last.queries = 0
          ELSE last.found
                 = { r \in db : /\ r.object_id = pk[last.inst]
                                /\ (last.lang = None \/ r.language = last.lang) }

\* C18: setting default_language to v sets the default and the current
\* language to v; setting language to v sets the current language only, leaves
\* the default language and the cached translations as they were and issues
\* no query.
C18_LanguageSetters ==
    [][\A i \in Inst, v \in Lang :
         /\ default_language_setter(i, v)
              => (linguist_language'[i] = v /\ linguist_default_language'[i] = v)
         /\ language_setter(i, v)
              => /\ linguist_language'[i] = v
                 /\ linguist_default_language' = linguist_default_language
                 /\ translations' = translations
                 /\ last'.queries = 0
      ]_vars

\* The default language was switched to "fr", then the current language back
\* to "en", on an instance holding cached values.
C18_Witness ==
    /\ last.op = "set_language"
    /\ linguist_default_language[last.inst] = "fr"
    /\ linguist_language[last.inst] = "en"
    /\ cached_translations_count(last.inst) = 2

\* C19: a read of a (field, language) that is cached on the instance, by a set
\* before it, returns the cached value with no query, whether or not the
\* instance is saved.
C19_ReadYourWrites ==
    (last.op = "read" /\ last.cached)
    => /\ last.err = "none"
       /\ last.queries = 0
       /\ last.ret = translations[last.inst][LastKey].field_value

\* The cache of instance j is the same before and after a step.
CacheKept(j) == translations'[j] = translations[j]

\* C20, the frame: a set, a save, a clear or a delete on one instance leaves
\* the cache of every other instance as it was.
C20_OtherCachesKept ==
    [][\A i \in Inst :
         (\/ \E l \in Lang, f \in Field, v \in Value : _cache_translation(i, l, f, v)
          \/ save(i)
          \/ clear_translations_cache(i)
          \/ \E l \in Lang \cup {None} : delete_translations(i, l))
         => \A j \in Inst \ {i} : CacheKept(j)
      ]_vars

\* C20: the cache of an instance is changed by the operations invoked on that
\* instance only, so an instance that caches a key keeps returning its cached
\* value while another instance of the same object is at work.
C20_InstanceIsolation ==
    (/\ last.op = "read" /\ last.cached
     /\ \E i \in Inst \ {last.inst} : pk[i] # NoPk /\ pk[i] = pk[last.inst])
    => /\ last.err = "none"
       /\ last.ret = translations[last.inst][LastKey].field_value

\* C21, the frame: clear_translations_cache() leaves every persisted record
\* and every row of the store as it was.
C21_ClearKeepsStore ==
    [][\A i \in Inst :
         clear_translations_cache(i) => (db' = db /\ rows' = rows /\ pk' = pk)
      ]_vars

\* C21, the pending edit: a save() that directly follows a clear persists
\* nothing, so an edit that was pending at the clear is not written.
C21_ClearedEditIsNotSaved ==
    [][\A i \in Inst :
         (last.op = "clear" /\ last.inst = i /\ last.n_before > 0 /\ save(i))
         => ObjectRecords(db', pk'[i]) = ObjectRecords(db, pk'[i])
      ]_vars

\* C21: clear_translations_cache() changes no persisted record: the first read
\* after the clear, of a (field, language) saved before it, returns the saved
\* value reloaded from the store.
C21_ClearThenReadReloads ==
    [][\A i \in Inst : \A l \in Lang, f \in Field :
         (/\ last.op = "clear" /\ last.inst = i /\ last.n_before > 0
          /\ pk[i] # NoPk /\ HasRecord(pk[i], make_cache_key(l, f))
          /\ _get_translated_value(i, l, f))
         => /\ last'.err = "none"
            /\ last'.ret = StoredValue(pk[i], make_cache_key(l, f))
      ]_vars
====
